---- MODULE Spec2Model ----
(***************************************************************************)
(* Model of the four scripts of the repository:                            *)
(*   linkedin_other.py      URL-increment crawl        (prog = "other")    *)
(*   linkedin_own.py        infinite-scroll crawl      (prog = "own")      *)
(*   process_embeddings.py  embedding/upsert pipeline  (prog = "embed")    *)
(*   linkedin_screenshot.py worker pool                (prog = "shot")     *)
(* One run executes one script; Init chooses which.  The browser, the      *)
(* site, the file system, the embedding service and the vector index are   *)
(* the environment: their answers are chosen nondeterministically.         *)
(***************************************************************************)
EXTENDS Integers, Sequences, FiniteSets, TLC

VARIABLES
  prog,               \* the script being run
  pc,                 \* position of the (single-threaded) script
  exc,                \* what raised the exception caught last, "none" if none
  url,                \* the start URL typed by the user (a token sequence)
  file,               \* the checkpoint file on disk
  save_ret,           \* where the running save_urls/save_connections returns to
  nav_calls,          \* driver.get calls issued for the current page
  urls_by_page,       \* linkedin_other.main: page number -> set of URLs
  page_number,        \* linkedin_other.main
  current_url,        \* the typed URL in full with its query, then
                      \* driver.current_url as the crawl rewrites it
  last_height,        \* linkedin_own.scroll_and_scrape
  same_height_count,  \* linkedin_own.scroll_and_scrape
  current_height,     \* linkedin_own.scroll_and_scrape
  all_connections,    \* linkedin_own.scroll_and_scrape
  existing_names,     \* linkedin_own.scroll_and_scrape
  show_more,          \* the page shows the "Show more results" control
  readings,           \* the scroll heights read so far, in order
  clicks,             \* clicks on "Show more results"
  profiles,           \* process_embeddings: the loaded records
  embed_fails,        \* the records for which the embedding call fails
  batch_size,         \* process_profiles_batch parameter
  idx,                \* process_profiles_batch: records consumed so far
  vectors_batch,      \* process_profiles_batch
  successful_uploads, \* process_profiles_batch
  upserts,            \* the calls received by index.upsert, with their outcome
  start_method,       \* linkedin_screenshot: how the pool starts its workers
  out_file,           \* linkedin_screenshot: the shared output file
  lock_held,          \* linkedin_screenshot: the tasks inside "with json_lock"
  tpc,                \* linkedin_screenshot: position of each task
  tnav,               \* linkedin_screenshot: page loads issued by each task
  existing_data       \* linkedin_screenshot: each task's list read from the file

vars == <<prog, pc, exc, url, file, save_ret, nav_calls, urls_by_page,
          page_number, current_url, last_height, same_height_count, current_height,
          all_connections, existing_names, show_more, readings, clicks,
          profiles, embed_fails, batch_size, idx, vectors_batch,
          successful_uploads, upserts, start_method, out_file, lock_held,
          tpc, tnav, existing_data>>

crawlVars == <<urls_by_page, page_number, current_url>>
scrollVars == <<last_height, same_height_count, current_height,
                all_connections, existing_names, show_more, readings,
                clicks>>
embedVars == <<profiles, embed_fails, batch_size, idx, vectors_batch,
               successful_uploads, upserts>>
shotVars == <<start_method, out_file, lock_held, tpc, tnav, existing_data>>

----------------------------------------------------------------------------
(* Bounds of the model *)

\* profile handles the site can show
NumKeys == 2
\* pages the URL-increment crawl may store before the model stops it
MaxPages == 3

\* scroll attempts of the infinite-scroll crawl before the model stops it
MaxScrolls == 5
\* connection cards one scrape of the page can find
MaxCards == 2
\* records in the file the pipeline loads
MaxProfiles == 5
\* batch_size the pipeline may be called with
MaxBatchSize == 3
\* profile URLs in the work list of the worker pool
NumTasks == 2

Keys == 1..NumKeys
\* a link's href: the profile URL and its query string ("" when none)
Queries == {"", "?miniProfile"}
Hrefs == [path : Keys, query : Queries]

----------------------------------------------------------------------------
(* Start URL *)

IsPrefix(p, s) == Len(p) <= Len(s) /\ SubSeq(s, 1, Len(p)) = p

StartUrls ==
  { <<"https://", "www.linkedin.com", "/", "search">>,
    <<"https://", "linkedin.com", "/", "in">>,
    <<"http://", "www.linkedin.com", "/", "search">>,
    <<"https://", "example.com", "/">> }

\* a test of the host alone, whatever the scheme
ValidStartUrlAnyScheme(u) == u[2] \in {"www.linkedin.com", "linkedin.com"}

\* url.startswith(('https://www.linkedin.com/', 'https://linkedin.com/'))
ValidStartUrl(u) ==
  \/ IsPrefix(<<"https://", "www.linkedin.com", "/">>, u)
  \/ IsPrefix(<<"https://", "linkedin.com", "/">>, u)

----------------------------------------------------------------------------
(* The checkpoint file *)

NoFile == [kind |-> "absent"]
EmptyFile == [kind |-> "empty"]
PartialFile == [kind |-> "partial"]
Written(data) == [kind |-> "complete", data |-> data]

RECURSIVE SumLen(_, _)
SumLen(pages, ks) ==
  IF ks = {} THEN 0
  ELSE LET k == CHOOSE x \in ks : TRUE
       IN Cardinality(pages[k]) + SumLen(pages, ks \ {k})

\* a dict whose total is the number of pages
UrlsDataCountsPages(pages) ==
  [total_profiles |-> Cardinality(DOMAIN pages), pages |-> pages]

\* the dict save_urls serialises (the timestamp is left out)
UrlsData(pages) ==
  [total_profiles |-> SumLen(pages, DOMAIN pages), pages |-> pages]

\* what the running save writes
SaveData ==
  IF prog = "other" THEN UrlsData(urls_by_page) ELSE all_connections

\* locals of the other scripts keep their initial values while one runs
InLoopSave == save_ret \in {"advance", "scroll"}

\* where an exception raised by a save lands: the handler around the crawl
\* loop (which falls into the finally block) when raised inside the loop,
\* the caller's handler when raised by the save of the finally block
SaveRaisesTo == IF InLoopSave THEN "finally" ELSE "quit"

\* open(filename, 'w'): truncates the file, or raises when it is unwritable
SaveOpen ==
  /\ prog \in {"other", "own"}
  /\ pc = "save_open"
  /\ \/ /\ file' = EmptyFile
        /\ pc' = "save_dump"
        /\ exc' = exc
     \/ /\ file' = file
        /\ exc' = "persistence"
        /\ pc' = SaveRaisesTo
  /\ UNCHANGED <<prog, url, save_ret, nav_calls, crawlVars, scrollVars,
                 embedVars, shotVars>>

\* json.dump under way: part of the text has reached the file
SaveWrite ==
  /\ prog \in {"other", "own"}
  /\ pc = "save_dump"
  /\ file = EmptyFile
  /\ file' = PartialFile
  /\ UNCHANGED <<prog, pc, exc, url, save_ret, nav_calls, crawlVars,
                 scrollVars, embedVars, shotVars>>

\* json.dump and the close of the with block complete, or the write raises
SaveDump ==
  /\ prog \in {"other", "own"}
  /\ pc = "save_dump"
  /\ \/ /\ file' = Written(SaveData)
        /\ pc' = save_ret
        /\ exc' = exc
     \/ /\ file' = file
        /\ exc' = "persistence"
        /\ pc' = SaveRaisesTo
  /\ UNCHANGED <<prog, url, save_ret, nav_calls, crawlVars, scrollVars,
                 embedVars, shotVars>>

----------------------------------------------------------------------------
(* linkedin_other.py *)

\* a result container without a profile link (find_element raises)
NoLink == [path |-> 0, query |-> ""]
Containers == Hrefs \cup {NoLink}

\* link.get_attribute('href').split('?')[0]
CleanUrl(href) == href.path

\* extract_profile_urls on a page showing the given containers
ExtractProfileUrls(containers) ==
  { CleanUrl(c) : c \in { d \in containers : d # NoLink } }

OtherValidate ==
  /\ prog = "other"
  /\ pc = "init"
  /\ pc' = IF ValidStartUrl(url) THEN "launch" ELSE "rejected"
  /\ UNCHANGED <<prog, exc, url, file, save_ret, nav_calls, crawlVars,
                 scrollVars, embedVars, shotVars>>

\* webdriver.Chrome(...); driver.get(url); urls_by_page = {}; page_number = 1
OtherLaunch ==
  /\ prog = "other"
  /\ pc = "launch"
  /\ nav_calls' = 1
  /\ \/ /\ pc' = "loop"
        /\ exc' = exc
     \/ /\ pc' = "quit"
        /\ exc' = "launch"
  /\ UNCHANGED <<prog, url, file, save_ret, crawlVars, scrollVars, embedVars,
                 shotVars>>

\* a query parameter "name=value" of a URL, both as text
Param(name, value) == [name |-> name, value |-> value]

\* the queries of the URLs the user may type: none (no "?" in the URL), one
\* without a page parameter, one with page=1, one whose page parameter has
\* no number, one with a parameter whose name ends in "page"
StartQueries ==
  { [has_query |-> FALSE, params |-> <<>>],
    [has_query |-> TRUE, params |-> <<Param("keywords", "dev")>>],
    [has_query |-> TRUE,
     params |-> <<Param("keywords", "dev"), Param("page", "1")>>],
    [has_query |-> TRUE,
     params |-> <<Param("page", ""), Param("keywords", "dev")>>],
    [has_query |-> TRUE,
     params |-> <<Param("keywords", "dev"), Param("perpage", "1")>>] }

\* the URL as typed: the tokens up to the query, and the query
TypedUrl(u, q) ==
  [path |-> u, has_query |-> q.has_query, params |-> q.params]

\* the text "name=" of the parameter has "page=" in it
HasPageEq(param) == param.name \in {"page", "perpage"}

\* \d+ matches the whole value
IsDigits(value) == value \in { ToString(k) : k \in 0..(MaxPages + 1) }

\* 'page=' in current_url
ContainsPageEq(u) == \E i \in 1..Len(u.params) : HasPageEq(u.params[i])

\* get_next_page_url: re.sub(r'page=\d+', f'page={page_number}', current_url)
\* rewrites every match in the text, f"{current_url}&page={page_number}"
\* adds the text "&page=N" at the end of the URL
GetNextPageUrl(u, n) ==
  IF ContainsPageEq(u)
    THEN [u EXCEPT !.params =
            [i \in 1..Len(u.params) |->
               IF HasPageEq(u.params[i]) /\ IsDigits(u.params[i].value)
                 THEN Param(u.params[i].name, ToString(n))
                 ELSE u.params[i]]]
    ELSE [u EXCEPT !.params = Append(u.params, Param("page", ToString(n)))]

\* top of the while loop: driver.get(next_url) when page_number > 1
OtherNavigate ==
  /\ prog = "other"
  /\ pc = "loop"
  /\ page_number <= MaxPages
  /\ IF page_number > 1
       THEN /\ nav_calls' = 1
            /\ \/ /\ pc' = "extract"
                  /\ exc' = exc
                  /\ current_url' = GetNextPageUrl(current_url, page_number)
               \/ /\ pc' = "finally"
                  /\ exc' = "navigation"
                  /\ current_url' = current_url
       ELSE /\ pc' = "extract"
            /\ UNCHANGED <<exc, nav_calls, current_url>>
  /\ UNCHANGED <<prog, url, file, save_ret, urls_by_page, page_number,
                 scrollVars, embedVars, shotVars>>

\* the loop body with the call of save_urls left out
StorePageNoSave(new_urls) ==
  IF new_urls = {}
    THEN /\ pc' = "finally"
         /\ UNCHANGED <<urls_by_page, save_ret>>
    ELSE /\ urls_by_page' =
              [p \in DOMAIN urls_by_page \cup {page_number} |->
                 IF p = page_number THEN new_urls ELSE urls_by_page[p]]
         /\ pc' = "advance"
         /\ save_ret' = save_ret

\* the loop body from extract_profile_urls to the call of save_urls
StorePage(new_urls) ==
  IF new_urls = {}
    THEN /\ pc' = "finally"
         /\ UNCHANGED <<urls_by_page, save_ret>>
    ELSE /\ urls_by_page' =
              [p \in DOMAIN urls_by_page \cup {page_number} |->
                 IF p = page_number THEN new_urls ELSE urls_by_page[p]]
         /\ pc' = "save_open"
         /\ save_ret' = "advance"

OtherExtract ==
  /\ prog = "other"
  /\ pc = "extract"
  /\ \/ \* TimeoutException: no container appeared, return set()
        /\ StorePage({})
        /\ exc' = exc
     \/ \E containers \in SUBSET Containers :
          /\ StorePage(ExtractProfileUrls(containers))
          /\ exc' = exc
     \/ \* find_elements raises
        /\ pc' = "finally"
        /\ exc' = "extraction"
        /\ UNCHANGED <<urls_by_page, save_ret>>
  /\ UNCHANGED <<prog, url, file, nav_calls, page_number, current_url,
                 scrollVars, embedVars, shotVars>>

\* a loop that skips a page number
OtherAdvanceByTwo ==
  /\ prog = "other"
  /\ pc = "advance"
  /\ page_number' = page_number + 2
  /\ pc' = "loop"
  /\ UNCHANGED <<prog, exc, url, file, save_ret, nav_calls, urls_by_page,
                 current_url, scrollVars, embedVars, shotVars>>

\* page_number += 1
OtherAdvance ==
  /\ prog = "other"
  /\ pc = "advance"
  /\ page_number' = page_number + 1
  /\ pc' = "loop"
  /\ UNCHANGED <<prog, exc, url, file, save_ret, nav_calls, urls_by_page,
                 current_url, scrollVars, embedVars, shotVars>>

\* a finally block that saves nothing
OtherFinallyWithoutSave ==
  /\ prog = "other"
  /\ pc = "finally"
  /\ pc' = IF exc = "interrupt" THEN "quit" ELSE "summary"
  /\ UNCHANGED <<prog, exc, url, file, save_ret, nav_calls, crawlVars,
                 scrollVars, embedVars, shotVars>>

\* finally: if urls_by_page: save_urls(urls_by_page)
OtherFinally ==
  /\ prog = "other"
  /\ pc = "finally"
  /\ LET after == IF exc = "interrupt" THEN "quit" ELSE "summary"
     IN IF DOMAIN urls_by_page # {}
          THEN /\ pc' = "save_open"
               /\ save_ret' = after
          ELSE /\ pc' = after
               /\ save_ret' = save_ret
  /\ UNCHANGED <<prog, exc, url, file, nav_calls, crawlVars, scrollVars,
                 embedVars, shotVars>>

\* the totals are printed and Enter is awaited
OtherSummary ==
  /\ prog = "other"
  /\ pc = "summary"
  /\ pc' = "quit"
  /\ UNCHANGED <<prog, exc, url, file, save_ret, nav_calls, crawlVars,
                 scrollVars, embedVars, shotVars>>

\* the outer finally: driver.quit()
OtherQuit ==
  /\ prog = "other"
  /\ pc = "quit"
  /\ pc' = "done"
  /\ UNCHANGED <<prog, exc, url, file, save_ret, nav_calls, crawlVars,
                 scrollVars, embedVars, shotVars>>

----------------------------------------------------------------------------
(* linkedin_own.py *)

\* document.body.scrollHeight as the page reports it
Heights == {100, 150}

\* inner_text() of a card's name element, and what .strip() makes of it
NameTexts == {"Ann", " Ann ", "Bob"}
Strip(text) == IF text = " Ann " THEN "Ann" ELSE text
\* query_selector found no such element in the card
NoElem == "<None>"

\* the connection cards the page can show: name text and occupation text
Cards ==
  { [name |-> "Ann", occupation |-> "Engineer"],
    [name |-> " Ann ", occupation |-> "Founder"],
    [name |-> "Bob", occupation |-> "Engineer"],
    [name |-> NoElem, occupation |-> "Founder"],
    [name |-> "Bob", occupation |-> NoElem] }
CardLists == UNION { [1..n -> Cards] : n \in 0..MaxCards }

\* a test that takes every name for a new one
IsNewAlways(name, existing_connections) == TRUE

\* "if name not in existing_connections"
IsNew(name, existing_connections) == name \notin existing_connections

\* scrape_visible_connections: the new records, and existing_connections as
\* the call leaves it
RECURSIVE ScrapeVisibleConnections(_, _)
ScrapeVisibleConnections(connections, existing_connections) ==
  IF connections = <<>>
    THEN [new_connections |-> <<>>, existing |-> existing_connections]
    ELSE LET connection == Head(connections)
             name == Strip(connection.name)
             fresh == /\ connection.name # NoElem
                      /\ connection.occupation # NoElem
                      /\ IsNew(name, existing_connections)
             rest == ScrapeVisibleConnections(
                       Tail(connections),
                       IF fresh THEN existing_connections \cup {name}
                                ELSE existing_connections)
         IN IF fresh
              THEN [new_connections |->
                      <<[name |-> name, occupation |-> connection.occupation]>>
                        \o rest.new_connections,
                    existing |-> rest.existing]
              ELSE rest

OwnValidate ==
  /\ prog = "own"
  /\ pc = "init"
  /\ pc' = IF ValidStartUrl(url) THEN "launch" ELSE "rejected"
  /\ UNCHANGED <<prog, exc, url, file, save_ret, nav_calls, crawlVars,
                 scrollVars, embedVars, shotVars>>

\* main: the browser is launched, page.goto(url), the user types "scrape!";
\* scroll_and_scrape then sets its locals and asks for the file name
OwnLaunch ==
  /\ prog = "own"
  /\ pc = "launch"
  /\ nav_calls' = 1
  /\ \/ /\ pc' = "scrape"
        /\ exc' = exc
     \/ /\ pc' = "quit"
        /\ exc' = "launch"
  /\ UNCHANGED <<prog, url, file, save_ret, crawlVars, scrollVars, embedVars,
                 shotVars>>

\* a loop body that saves after every call
SaveNeededAlways(new_connections) == TRUE

\* "if new_connections:"
SaveNeeded(new_connections) == new_connections # <<>>

\* the loop body up to the call of save_connections
OwnScrape ==
  /\ prog = "own"
  /\ pc = "scrape"
  /\ \/ \E connections \in CardLists :
          LET r == ScrapeVisibleConnections(connections, existing_names)
          IN /\ existing_names' = r.existing
             /\ exc' = exc
             /\ IF SaveNeeded(r.new_connections)
                  THEN /\ all_connections' = all_connections \o r.new_connections
                       /\ pc' = "save_open"
                       /\ save_ret' = "scroll"
                  ELSE /\ pc' = "scroll"
                       /\ UNCHANGED <<all_connections, save_ret>>
     \/ \* a page call raises after some of the cards have been read
        \E connections \in CardLists :
          /\ existing_names' =
               ScrapeVisibleConnections(connections, existing_names).existing
          /\ exc' = "extraction"
          /\ pc' = "finally"
          /\ UNCHANGED <<all_connections, save_ret>>
  /\ UNCHANGED <<prog, url, file, nav_calls, crawlVars, last_height,
                 same_height_count, current_height, show_more, readings,
                 clicks, embedVars, shotVars>>

\* page.evaluate: scroll to the bottom and read the scroll height; the page
\* is then as the two-second wait leaves it
OwnScroll ==
  /\ prog = "own"
  /\ pc = "scroll"
  /\ Len(readings) < MaxScrolls
  /\ \/ \E h \in Heights, visible \in BOOLEAN :
          /\ current_height' = h
          /\ show_more' = visible
          /\ readings' = Append(readings, h)
          /\ pc' = "check"
          /\ exc' = exc
     \/ /\ exc' = "scroll"
        /\ pc' = "finally"
        /\ UNCHANGED <<current_height, show_more, readings>>
  /\ UNCHANGED <<prog, url, file, save_ret, nav_calls, crawlVars, last_height,
                 same_height_count, all_connections, existing_names, clicks,
                 embedVars, shotVars>>

\* the bottom test with the loop left after 2 unchanged heights
BottomTestEarly(count, unchanged, visible) ==
  IF unchanged
    THEN IF visible THEN 0
         ELSE IF count + 1 >= 2 THEN -1 ELSE count + 1
    ELSE 0

\* the bottom test with the counter kept when the control is clicked
BottomTestNoReset(count, unchanged, visible) ==
  IF unchanged
    THEN IF visible THEN count + 1
         ELSE IF count + 1 >= 3 THEN -1 ELSE count + 1
    ELSE 0

\* the bottom test that leaves the loop at the 3rd unchanged height also
\* when the control is visible
BottomTestIgnoresControl(count, unchanged, visible) ==
  IF unchanged
    THEN IF count + 1 >= 3 THEN -1
         ELSE IF visible THEN 0 ELSE count + 1
    ELSE 0

\* the value of same_height_count the bottom test leaves, -1 when it breaks
\* out of the loop
BottomTest(count, unchanged, visible) ==
  IF unchanged
    THEN IF visible THEN 0
         ELSE IF count + 1 >= 3 THEN -1 ELSE count + 1
    ELSE 0

\* "if current_height == last_height: ... last_height = current_height"
OwnCheck ==
  /\ prog = "own"
  /\ pc = "check"
  /\ LET unchanged == current_height = last_height
         after == BottomTest(same_height_count, unchanged, show_more)
     IN /\ clicks' = IF unchanged /\ show_more THEN clicks + 1 ELSE clicks
        /\ IF after = -1
             THEN /\ same_height_count' = same_height_count + 1
                  /\ pc' = "finally"
                  /\ last_height' = last_height
             ELSE /\ same_height_count' = after
                  /\ pc' = "scrape"
                  /\ last_height' = current_height
  /\ UNCHANGED <<prog, exc, url, file, save_ret, nav_calls, crawlVars,
                 current_height, all_connections, existing_names, show_more,
                 readings, embedVars, shotVars>>

\* is_visible() or click() raises
OwnCheckRaises ==
  /\ prog = "own"
  /\ pc = "check"
  /\ current_height = last_height
  /\ same_height_count' = same_height_count + 1
  /\ exc' = "control"
  /\ pc' = "finally"
  /\ UNCHANGED <<prog, url, file, save_ret, nav_calls, crawlVars, last_height,
                 current_height, all_connections, existing_names, show_more,
                 readings, clicks, embedVars, shotVars>>

\* finally: if all_connections: save_connections(all_connections, filename)
OwnFinally ==
  /\ prog = "own"
  /\ pc = "finally"
  /\ LET after == IF exc = "interrupt" THEN "quit" ELSE "summary"
     IN IF all_connections # <<>>
          THEN /\ pc' = "save_open"
               /\ save_ret' = after
          ELSE /\ pc' = after
               /\ save_ret' = save_ret
  /\ UNCHANGED <<prog, exc, url, file, nav_calls, crawlVars, scrollVars,
                 embedVars, shotVars>>

\* scroll_and_scrape returns; main reports the count and awaits Enter
OwnSummary ==
  /\ prog = "own"
  /\ pc = "summary"
  /\ pc' = "quit"
  /\ UNCHANGED <<prog, exc, url, file, save_ret, nav_calls, crawlVars,
                 scrollVars, embedVars, shotVars>>

\* main's finally: browser.close()
OwnQuit ==
  /\ prog = "own"
  /\ pc = "quit"
  /\ pc' = "done"
  /\ UNCHANGED <<prog, exc, url, file, save_ret, nav_calls, crawlVars,
                 scrollVars, embedVars, shotVars>>

----------------------------------------------------------------------------
(* Interruption of a crawl *)

CrawlLoopPcs == {"loop", "extract", "advance", "scrape", "scroll", "check"}
SavePcs == {"save_open", "save_dump"}

\* Ctrl-C while the crawl loop runs: KeyboardInterrupt passes the
\* "except Exception" clause and the finally block runs
UserInterrupt ==
  /\ prog \in {"other", "own"}
  /\ \/ pc \in CrawlLoopPcs
     \/ pc \in SavePcs /\ InLoopSave
  /\ exc' = "interrupt"
  /\ pc' = "finally"
  /\ UNCHANGED <<prog, url, file, save_ret, nav_calls, crawlVars, scrollVars,
                 embedVars, shotVars>>

\* the process is killed (SIGKILL, power loss): nothing more runs
Kill ==
  /\ prog \in {"other", "own"}
  /\ pc \notin {"done", "rejected", "killed"}
  /\ pc' = "killed"
  /\ UNCHANGED <<prog, exc, url, file, save_ret, nav_calls, crawlVars,
                 scrollVars, embedVars, shotVars>>

----------------------------------------------------------------------------
(* process_embeddings.py *)

\* batch_size=100 in the signature of process_profiles_batch
DefaultBatchSize == 100

\* the batch test with > for >=
BatchFullLate(batch, size) == Len(batch) > size

\* "if len(vectors_batch) >= batch_size"
BatchFull(batch, size) == Len(batch) >= size

\* a failed upsert that leaves the count as it is
CountKeptAfterFailedUpsert(count, batch) == count

\* "successful_uploads -= len(vectors_batch)" of both except clauses
CountAfterFailedUpsert(count, batch) == count - Len(batch)

\* profile['url'].split('/'): the segments of a profile URL, with a last
\* empty segment when the URL ends in "/"
ProfileUrl(i, slash) ==
  <<"https:", "", "www.linkedin.com", "in", ToString(i)>>
    \o (IF slash THEN <<"">> ELSE <<>>)

\* how the URLs of a loaded file are written: all with a trailing "/", all
\* without, or the odd records with and the even ones without
UrlStyles == {"slash", "bare", "mixed"}
EndsInSlash(style, i) == style = "slash" \/ (style = "mixed" /\ i % 2 = 1)

\* the keys process_profiles_batch reads with profile[...]
RequiredKeys == {"name", "url"}

\* record i of the loaded file; lacks names the one record that misses a key
ProfileRecord(i, style, lacks) ==
  [keys |-> IF lacks.rec = i THEN RequiredKeys \ {lacks.key} ELSE RequiredKeys,
   name |-> i,
   url |-> ProfileUrl(i, EndsInSlash(style, i))]

\* profile['url'].split('/')[-2]
VectorId(u) == u[Len(u) - 1]

\* the vector dict (its values are left out)
MakeVector(profile) == [id |-> VectorId(profile.url), metadata |-> profile]

\* get_embedding that hands back a vector also when the service call failed
GetEmbeddingAlways(i) == TRUE

\* get_embedding(combined_text) is truthy: the service call succeeded
GetEmbedding(i) == i \notin embed_fails

\* a failed upsert that leaves its vectors in the batch
BatchKeptAfterFailedUpsert(batch, ok) == IF ok THEN <<>> ELSE batch

\* "vectors_batch = []" after the upsert, in the try and in the except clause
BatchAfterUpsert(batch, ok) == <<>>

\* index.upsert(vectors=batch) inside try/except: the call is received by the
\* index and either succeeds or raises
Upsert(batch, ok) == Append(upserts, [vectors |-> batch, ok |-> ok])

\* main: init_pinecone() and the load of the JSON file, either of which
\* makes main return early
EmbedStart ==
  /\ prog = "embed"
  /\ pc = "init"
  /\ \/ /\ pc' = "loop"
        /\ exc' = exc
     \/ /\ pc' = "done"
        /\ exc' = "load"
  /\ UNCHANGED <<prog, url, file, save_ret, nav_calls, crawlVars, scrollVars,
                 embedVars, shotVars>>

\* one iteration of "for i, profile in enumerate(profiles, 1)"; a missing
\* key raises KeyError, which neither this function nor main catches
EmbedRecord ==
  /\ prog = "embed"
  /\ pc = "loop"
  /\ idx < Len(profiles)
  /\ idx' = idx + 1
  /\ LET profile == profiles[idx + 1]
     IN IF "name" \notin profile.keys
          THEN /\ pc' = "aborted"
               /\ exc' = "KeyError"
               /\ UNCHANGED <<vectors_batch, successful_uploads, upserts>>
          ELSE IF ~GetEmbedding(idx + 1)
          THEN UNCHANGED <<pc, exc, vectors_batch, successful_uploads,
                           upserts>>
          ELSE IF "url" \notin profile.keys
          THEN /\ pc' = "aborted"
               /\ exc' = "KeyError"
               /\ UNCHANGED <<vectors_batch, successful_uploads, upserts>>
          ELSE LET batch == Append(vectors_batch, MakeVector(profile))
               IN /\ UNCHANGED <<pc, exc>>
                  /\ IF BatchFull(batch, batch_size)
                       THEN \E ok \in BOOLEAN :
                              /\ upserts' = Upsert(batch, ok)
                              /\ vectors_batch' = BatchAfterUpsert(batch, ok)
                              /\ successful_uploads' =
                                   IF ok THEN successful_uploads + 1
                                   ELSE CountAfterFailedUpsert(
                                          successful_uploads + 1, batch)
                       ELSE /\ vectors_batch' = batch
                            /\ successful_uploads' = successful_uploads + 1
                            /\ upserts' = upserts
  /\ UNCHANGED <<prog, url, file, save_ret, nav_calls, crawlVars, scrollVars,
                 profiles, embed_fails, batch_size, shotVars>>

\* after the loop: "if vectors_batch:" upload the remaining vectors; return
EmbedFinish ==
  /\ prog = "embed"
  /\ pc = "loop"
  /\ idx = Len(profiles)
  /\ pc' = "done"
  /\ IF vectors_batch # <<>>
       THEN \E ok \in BOOLEAN :
              /\ upserts' = Upsert(vectors_batch, ok)
              /\ successful_uploads' =
                   IF ok THEN successful_uploads
                   ELSE CountAfterFailedUpsert(successful_uploads,
                                               vectors_batch)
       ELSE UNCHANGED <<upserts, successful_uploads>>
  /\ UNCHANGED <<prog, exc, url, file, save_ret, nav_calls, crawlVars,
                 scrollVars, profiles, embed_fails, batch_size, idx,
                 vectors_batch, shotVars>>

----------------------------------------------------------------------------
(* linkedin_screenshot.py *)

\* Pool(5)
PoolSize == 5

Tasks == 1..NumTasks

Running == { t \in Tasks : tpc[t] \notin {"queued", "done", "failed"} }

\* leaving the "with json_lock" block
Release(t) == lock_held' = lock_held \ {t}

\* a pool worker picks the URL up: Chrome is started for it
ShotStart(t) ==
  /\ prog = "shot"
  /\ tpc[t] = "queued"
  /\ Cardinality(Running) < PoolSize
  /\ \/ tpc' = [tpc EXCEPT ![t] = "get"]
     \/ tpc' = [tpc EXCEPT ![t] = "failed"]
  /\ UNCHANGED <<prog, pc, exc, url, file, save_ret, nav_calls, crawlVars,
                 scrollVars, embedVars, start_method, out_file, lock_held,
                 tnav, existing_data>>

\* "try: driver.get(url)"; on an exception the handler goes on to refresh
ShotGet(t) ==
  /\ prog = "shot"
  /\ tpc[t] = "get"
  /\ tnav' = [tnav EXCEPT ![t] = 1]
  /\ \/ tpc' = [tpc EXCEPT ![t] = "capture"]
     \/ tpc' = [tpc EXCEPT ![t] = "refresh"]
  /\ UNCHANGED <<prog, pc, exc, url, file, save_ret, nav_calls, crawlVars,
                 scrollVars, embedVars, start_method, out_file, lock_held,
                 existing_data>>

\* "except Exception: driver.refresh()"; an exception of refresh reaches the
\* handler of the whole function
ShotRefresh(t) ==
  /\ prog = "shot"
  /\ tpc[t] = "refresh"
  /\ tnav' = [tnav EXCEPT ![t] = tnav[t] + 1]
  /\ \/ tpc' = [tpc EXCEPT ![t] = "capture"]
     \/ tpc' = [tpc EXCEPT ![t] = "failed"]
  /\ UNCHANGED <<prog, pc, exc, url, file, save_ret, nav_calls, crawlVars,
                 scrollVars, embedVars, start_method, out_file, lock_held,
                 existing_data>>

\* the screenshots are taken and analyze_profile_with_gpt4v is called: it
\* returns the profile data or None, or a driver call raises
ShotCapture(t) ==
  /\ prog = "shot"
  /\ tpc[t] = "capture"
  /\ \/ tpc' = [tpc EXCEPT ![t] = "lock"]
     \/ tpc' = [tpc EXCEPT ![t] = "cleanup"]
     \/ tpc' = [tpc EXCEPT ![t] = "failed"]
  /\ UNCHANGED <<prog, pc, exc, url, file, save_ret, nav_calls, crawlVars,
                 scrollVars, embedVars, start_method, out_file, lock_held,
                 tnav, existing_data>>

\* "with json_lock:".  json_lock is created when the module is imported:
\* forked workers inherit the parent's lock, spawned workers import the
\* module again and each creates a lock of its own
ShotAcquire(t) ==
  /\ prog = "shot"
  /\ tpc[t] = "lock"
  /\ start_method = "fork" => lock_held = {}
  /\ lock_held' = lock_held \cup {t}
  /\ tpc' = [tpc EXCEPT ![t] = "read"]
  /\ UNCHANGED <<prog, pc, exc, url, file, save_ret, nav_calls, crawlVars,
                 scrollVars, embedVars, start_method, out_file, tnav,
                 existing_data>>

\* existing_data = [] or json.load(f); existing_data.append(profile_data).
\* json.load raises on a file that holds no complete JSON text; the handler
\* inside the with block logs it
ShotRead(t) ==
  /\ prog = "shot"
  /\ tpc[t] = "read"
  /\ IF out_file.kind \in {"absent", "complete"}
       THEN /\ existing_data' =
                 [existing_data EXCEPT ![t] =
                    Append(IF out_file.kind = "absent" THEN <<>>
                           ELSE out_file.data, t)]
            /\ tpc' = [tpc EXCEPT ![t] = "write"]
            /\ lock_held' = lock_held
       ELSE /\ tpc' = [tpc EXCEPT ![t] = "cleanup"]
            /\ Release(t)
            /\ existing_data' = existing_data
  /\ UNCHANGED <<prog, pc, exc, url, file, save_ret, nav_calls, crawlVars,
                 scrollVars, embedVars, start_method, out_file, tnav>>

\* open(output_file, 'w'): truncates the file, or raises
ShotOpen(t) ==
  /\ prog = "shot"
  /\ tpc[t] = "write"
  /\ \/ /\ out_file' = EmptyFile
        /\ tpc' = [tpc EXCEPT ![t] = "dump"]
        /\ lock_held' = lock_held
     \/ /\ out_file' = out_file
        /\ tpc' = [tpc EXCEPT ![t] = "cleanup"]
        /\ Release(t)
  /\ UNCHANGED <<prog, pc, exc, url, file, save_ret, nav_calls, crawlVars,
                 scrollVars, embedVars, start_method, tnav, existing_data>>

\* json.dump(existing_data, f) and the end of both with blocks
ShotDump(t) ==
  /\ prog = "shot"
  /\ tpc[t] = "dump"
  /\ \/ out_file' = Written(existing_data[t])
     \/ out_file' = out_file
  /\ tpc' = [tpc EXCEPT ![t] = "cleanup"]
  /\ Release(t)
  /\ UNCHANGED <<prog, pc, exc, url, file, save_ret, nav_calls, crawlVars,
                 scrollVars, embedVars, start_method, tnav, existing_data>>

\* the screenshots are removed; finally: driver.quit()
ShotCleanup(t) ==
  /\ prog = "shot"
  /\ tpc[t] = "cleanup"
  /\ tpc' = [tpc EXCEPT ![t] = "done"]
  /\ UNCHANGED <<prog, pc, exc, url, file, save_ret, nav_calls, crawlVars,
                 scrollVars, embedVars, start_method, out_file, lock_held,
                 tnav, existing_data>>

----------------------------------------------------------------------------
(* The runs *)

\* the one record of the file that misses a key, rec = 0 for none
Lacking(n) ==
  {[rec |-> 0, key |-> "none"]} \cup [rec : 1..n, key : RequiredKeys]

\* the pipeline's inputs: the records, the batch size, the records whose
\* embedding call fails, how the URLs are written, the record missing a key
EmbedInputs ==
  { [n |-> n, size |-> b, fails |-> f, style |-> st, lacks |-> l] :
      n \in 0..MaxProfiles, b \in 1..MaxBatchSize,
      f \in SUBSET (1..MaxProfiles), st \in UrlStyles,
      l \in Lacking(MaxProfiles) }
  \cup { [n |-> 250, size |-> DefaultBatchSize, fails |-> {},
          style |-> "slash", lacks |-> [rec |-> 0, key |-> "none"]] }

\* the inputs of a run of another script
NoEmbedInput ==
  [n |-> 0, size |-> 1, fails |-> {}, style |-> "slash",
   lacks |-> [rec |-> 0, key |-> "none"]]

Init ==
  /\ prog \in {"other", "own", "embed", "shot"}
  /\ pc = "init"
  /\ exc = "none"
  /\ url \in IF prog \in {"other", "own"} THEN StartUrls
                                          ELSE {<<>>}
  /\ file = NoFile
  /\ save_ret = "none"
  /\ nav_calls = 0
  /\ urls_by_page = <<>>
  /\ page_number = 1
  /\ current_url \in { TypedUrl(url, q) :
                        q \in IF prog = "other" THEN StartQueries
                              ELSE {[has_query |-> FALSE, params |-> <<>>]} }
  /\ last_height = 0
  /\ same_height_count = 0
  /\ current_height = 0
  /\ all_connections = <<>>
  /\ existing_names = {}
  /\ show_more = FALSE
  /\ readings = <<>>
  /\ clicks = 0
  /\ \E in \in EmbedInputs :
       /\ prog = "embed" \/ in = NoEmbedInput
       /\ in.fails \subseteq 1..in.n
       /\ in.lacks.rec <= in.n
       /\ profiles = [i \in 1..in.n |-> ProfileRecord(i, in.style, in.lacks)]
       /\ batch_size = in.size
       /\ embed_fails = in.fails
  /\ idx = 0
  /\ vectors_batch = <<>>
  /\ successful_uploads = 0
  /\ upserts = <<>>
  /\ start_method \in IF prog = "shot" THEN {"fork", "spawn"} ELSE {"fork"}
  /\ out_file = NoFile
  /\ lock_held = {}
  /\ tpc = [t \in Tasks |-> "queued"]
  /\ tnav = [t \in Tasks |-> 0]
  /\ existing_data = [t \in Tasks |-> <<>>]

Next ==
  \/ OtherValidate
  \/ OtherLaunch
  \/ OtherNavigate
  \/ OtherExtract
  \/ OtherAdvance
  \/ OtherFinally
  \/ OtherSummary
  \/ OtherQuit
  \/ OwnValidate
  \/ OwnLaunch
  \/ OwnScrape
  \/ OwnScroll
  \/ OwnCheck
  \/ OwnCheckRaises
  \/ OwnFinally
  \/ OwnSummary
  \/ OwnQuit
  \/ SaveOpen
  \/ SaveWrite
  \/ SaveDump
  \/ UserInterrupt
  \/ Kill
  \/ EmbedStart
  \/ EmbedRecord
  \/ EmbedFinish
  \/ \E t \in Tasks :
       \/ ShotStart(t)
       \/ ShotGet(t)
       \/ ShotRefresh(t)
       \/ ShotCapture(t)
       \/ ShotAcquire(t)
       \/ ShotRead(t)
       \/ ShotOpen(t)
       \/ ShotDump(t)
       \/ ShotCleanup(t)

Spec == Init /\ [][Next]_vars

----------------------------------------------------------------------------
(* Properties of the URL-increment crawl *)

StoredPages == DOMAIN urls_by_page

\* C1: no canonical key (profile URL without its query string) is in the
\* record list of more than one page of urls_by_page, in any reachable state.
KeyUniqueness ==
  prog = "other" =>
    \A p, q \in StoredPages :
      p # q => urls_by_page[p] \cap urls_by_page[q] = {}

\* the keys stored on the pages before page p
KeysBefore(p) == UNION { urls_by_page[q] : q \in { r \in StoredPages : r < p } }

\* C2: a page whose extraction yields no key that is new to the crawl ends
\* the crawl and gets no entry: every stored page holds a key that no
\* earlier page holds; a page repeating page 1 leaves one page stored.
ZeroNewRecordsTerminate ==
  prog = "other" =>
    \A p \in StoredPages : urls_by_page[p] \ KeysBefore(p) # {}

\* the records on the pages of a checkpoint, counted one by one
CountRecords(pages) ==
  Cardinality(UNION { { <<p, u>> : u \in pages[p] } : p \in DOMAIN pages })

\* C19: a file that save_urls has written holds one whole view and nothing
\* else: its pages are the first pages in memory, each with the records it
\* has in memory, its total is the number of records on those pages; and a
\* save that completes leaves in the file exactly the pages in memory.
CheckpointContents ==
  /\ []((prog = "other" /\ file.kind = "complete") =>
          /\ file.data.total_profiles = CountRecords(file.data.pages)
          /\ \E k \in 1..(MaxPages + 1) :
               /\ DOMAIN file.data.pages = 1..k
               /\ k \in {page_number - 1, page_number}
          /\ DOMAIN file.data.pages \subseteq StoredPages
          /\ \A p \in DOMAIN file.data.pages :
               file.data.pages[p] = urls_by_page[p])
  /\ [][(prog = "other" /\ pc = "save_dump" /\ file'.kind = "complete")
          => /\ file'.data.pages = urls_by_page
             /\ file'.data.total_profiles = CountRecords(urls_by_page)]_vars

\* the 2nd save replaced the file of the 1st: 2 pages with 3 records
CheckpointContentsWitness ==
  /\ prog = "other"
  /\ pc = "loop"
  /\ file.kind = "complete"
  /\ DOMAIN file.data.pages = {1, 2}
  /\ file.data.pages = urls_by_page
  /\ file.data.total_profiles = 3

\* the places of the page parameter in the query of a URL; a URL without
\* "?" has no query, whatever text follows its path
PageParams(u) ==
  IF u.has_query
    THEN { i \in 1..Len(u.params) : u.params[i].name = "page" }
    ELSE {}

NotPageParam(param) == param.name # "page"

\* C21: the URL the crawl moves to for page n >= 2 carries n as its page
\* parameter, replaced or appended, differs from the URL of page n-1, and is
\* the URL of page n-1 in every other part.
NextPageUrl ==
  [][(prog = "other" /\ pc = "loop" /\ pc' = "extract" /\ page_number > 1) =>
       LET n == page_number
           u == current_url
           v == current_url'
       IN /\ PageParams(v) # {}
          /\ \A i \in PageParams(v) : v.params[i].value = ToString(n)
          /\ v # u
          /\ v.path = u.path
          /\ v.has_query = u.has_query
          /\ SelectSeq(v.params, NotPageParam)
               = SelectSeq(u.params, NotPageParam)]_vars

\* C22 as stated: in every reachable state the stored pages are exactly the
\* pages 1 .. page_number - 1, each with a record list that is not empty.
PageNumberingAsStated ==
  prog = "other" =>
    /\ StoredPages = 1..(page_number - 1)
    /\ \A p \in StoredPages : urls_by_page[p] # {}

\* C22 amended: the stored pages are the pages 1 .. k, each with a record
\* list that is not empty; k = page_number - 1 at the top of an iteration and
\* up to the extraction, and k = page_number from the moment the page is
\* stored until page_number is incremented, which a save that raises or is
\* interrupted prevents for good; pages are added in increasing order and a
\* stored page is never modified or removed.
PageNumbering ==
  /\ [](prog = "other" =>
          /\ \E k \in {page_number - 1, page_number} : StoredPages = 1..k
          /\ pc \in {"init", "launch", "loop", "extract"}
               => StoredPages = 1..(page_number - 1)
          /\ pc \in {"save_open", "save_dump"} /\ InLoopSave
               => StoredPages = 1..page_number
          /\ \A p \in StoredPages : urls_by_page[p] # {})
  /\ [][prog = "other" =>
          /\ \A p \in StoredPages :
               p \in DOMAIN urls_by_page' /\ urls_by_page'[p] = urls_by_page[p]
          /\ \A p \in DOMAIN urls_by_page' \ StoredPages :
               /\ p = page_number
               /\ \A q \in StoredPages : q < p]_vars

\* the save of page 2 was interrupted: pages 1 and 2 are stored and
\* page_number is still 2
PageNumberingWitness ==
  /\ prog = "other"
  /\ pc = "done"
  /\ exc = "interrupt"
  /\ page_number = 2
  /\ StoredPages = {1, 2}

----------------------------------------------------------------------------
(* Properties of the infinite-scroll crawl *)

\* the height the i-th reading is compared with (last_height starts at 0)
Compared(i) == IF i = 1 THEN 0 ELSE readings[i - 1]

\* the readings at the end of the sequence that equal their predecessor
RECURSIVE UnchangedRun(_)
UnchangedRun(n) ==
  IF n = 0 \/ readings[n] # Compared(n) THEN 0 ELSE 1 + UnchangedRun(n - 1)

\* the loop has just been left by its break statement
Terminated == prog = "own" /\ pc = "finally" /\ exc = "none"

\* the bottom test of the latest reading has been made and the loop goes on
Continued == prog = "own" /\ pc = "scrape" /\ exc = "none" /\ readings # <<>>

\* C3 as stated: with no control visible, after the readings
\* [100,150,150,150] the loop is Terminated.
ScrollTerminationAsStated ==
  (prog = "own" /\ clicks = 0 /\ exc = "none" /\ pc \in {"scrape", "finally"}
     /\ readings = <<100, 150, 150, 150>>)
    => Terminated

\* C3 amended: while the control has never been visible at an unchanged
\* height, the loop is Terminated exactly when the last 3 readings each equal
\* the reading before them, and goes on while fewer do: after
\* [100,150,150,150] it goes on with the counter at 2, after
\* [100,150,150,150,150] it is Terminated.
ScrollTermination ==
  (prog = "own" /\ clicks = 0) =>
    /\ Terminated => UnchangedRun(Len(readings)) = 3
    /\ Continued =>
         /\ UnchangedRun(Len(readings)) < 3
         /\ same_height_count = UnchangedRun(Len(readings))
    /\ (readings = <<100, 150, 150, 150>> /\ exc = "none"
          /\ pc \in {"scrape", "finally"})
         => Continued /\ same_height_count = 2
    /\ (readings = <<100, 150, 150, 150, 150>> /\ exc = "none"
          /\ pc \in {"scrape", "finally"})
         => Terminated

ScrollTerminationWitness ==
  /\ Terminated
  /\ clicks = 0
  /\ readings = <<100, 150, 150, 150, 150>>

\* C4: an iteration that finds the height unchanged and the control visible
\* clicks the control, ends with the unchanged-height counter at 0 and does
\* not leave the loop, whatever the counter was.
LoadMoreHandling ==
  [][(OwnCheck /\ current_height = last_height /\ show_more)
       => /\ clicks' = clicks + 1
          /\ same_height_count' = 0
          /\ pc' = "scrape"]_vars

\* the control has been clicked with the counter at 2, and the loop goes on
LoadMoreHandlingWitness ==
  /\ Continued
  /\ clicks > 0
  /\ same_height_count = 0
  /\ Len(readings) >= 4
  /\ UnchangedRun(Len(readings)) >= 3

\* the scroll loop is running: between two calls of scrape_visible_connections
InScrollLoop ==
  \/ pc \in {"scrape", "scroll", "check"}
  \/ pc \in SavePcs /\ InLoopSave

\* C24: the scroll loop ends within 3 further scroll attempts once the
\* height has stopped changing and the control is not visible: while the loop
\* runs the counter of unchanged heights is below 3, every bottom test that
\* finds the height unchanged and the control not visible raises it by one
\* and leaves the loop when it reaches 3; conversely the loop ends without an
\* exception only in such a bottom test, never in an iteration where the
\* height changed or the control is visible.
ScrollLiveness ==
  /\ [](prog = "own" =>
          /\ InScrollLoop => same_height_count \in 0..2
          /\ Terminated => same_height_count = 3)
  /\ [][prog = "own" =>
          LET unchanged == current_height = last_height
              ended == pc # "finally" /\ pc' = "finally" /\ exc' = "none"
          IN /\ ended => pc = "check" /\ unchanged /\ ~show_more
             /\ (OwnCheck /\ unchanged /\ ~show_more) =>
                  /\ same_height_count' = same_height_count + 1
                  /\ ended <=> same_height_count' = 3
                  /\ ~ended => pc' = "scrape"]_vars

\* the control was clicked at the 2nd reading and the loop ended at the 5th,
\* the 3rd unchanged height after the click
ScrollLivenessWitness ==
  /\ Terminated
  /\ clicks = 1
  /\ Len(readings) = 5
  /\ UnchangedRun(Len(readings)) = 4
  /\ same_height_count = 3

----------------------------------------------------------------------------
(* Properties of the checkpoint *)

\* C5: in both crawls a step that produced new records has the whole
\* accumulated state saved before the next navigation or scroll begins: when
\* a navigation (pc = "loop") or a scroll (pc = "scroll") is about to start,
\* the file holds every record accumulated in memory.
Durability ==
  /\ (prog = "other" /\ pc \in {"advance", "loop"} /\ StoredPages # {})
       => file = Written(UrlsData(urls_by_page))
  /\ (prog = "own" /\ pc = "scroll" /\ all_connections # <<>>)
       => file = Written(all_connections)

DurabilityWitness ==
  /\ prog = "other"
  /\ pc = "loop"
  /\ page_number = 3
  /\ StoredPages = {1, 2}
  /\ file = Written(UrlsData(urls_by_page))

\* C6: whenever the process is killed, also in the middle of a save, the
\* checkpoint file is absent or holds a complete checkpoint, never an empty
\* or partly written text.
CheckpointAtomicity ==
  (prog \in {"other", "own"} /\ pc = "killed")
    => file.kind \in {"absent", "complete"}

\* C7: a save that fails inside the crawl loop does not end the crawl: the
\* loop goes on with the next page or scroll.
PersistenceFailureNonFatal ==
  (prog \in {"other", "own"} /\ exc = "persistence" /\ InLoopSave)
    => pc \in CrawlLoopPcs \cup SavePcs

\* C8: a navigation that raises is tried a second time before the crawl (or
\* the profile task) fails: the crawl has failed on a navigation only after
\* 2 calls for the page, and a profile task loads its page at most twice.
NavigationRetry ==
  /\ (prog = "other" /\ exc = "navigation") => nav_calls = 2
  /\ prog = "shot" =>
       \A t \in Tasks : /\ tnav[t] <= 2
                        /\ tpc[t] = "refresh" => tnav[t] = 1

\* the crawl loop was left by an exception of navigation, extraction or
\* scrolling or by the user's interrupt
Interrupted ==
  exc \in {"navigation", "extraction", "scroll", "control", "interrupt"}

\* the crawl routine is over: its finally block is behind
CrawlExited == pc \in {"summary", "quit", "done"}

\* C14: when a crawl loop is interrupted by an exception of navigation,
\* extraction or scrolling or by the user, the finally block saves, and once
\* the crawl routine is over (that save not having raised) the checkpoint
\* file holds every record accumulated in memory.
FlushOnInterrupt ==
  (prog \in {"other", "own"} /\ Interrupted /\ CrawlExited) =>
    /\ (prog = "other" /\ StoredPages # {})
         => file = Written(UrlsData(urls_by_page))
    /\ (prog = "own" /\ all_connections # <<>>)
         => file = Written(all_connections)

\* the user interrupted the scroll crawl with 2 records accumulated
FlushOnInterruptWitness ==
  /\ prog = "own"
  /\ exc = "interrupt"
  /\ pc = "done"
  /\ Len(all_connections) = 2
  /\ file = Written(all_connections)

\* the start URL begins with one of the two accepted site prefixes
OnLinkedIn(u) ==
  /\ u[1] = "https://"
  /\ u[2] \in {"www.linkedin.com", "linkedin.com"}
  /\ u[3] = "/"

\* C16: a start URL that does not begin with an accepted site prefix is
\* rejected before crawling: the run stops at the validation, no browser is
\* started, nothing is navigated to or extracted, and no checkpoint file is
\* written.
InvalidStartUrlRejected ==
  (prog \in {"other", "own"} /\ ~OnLinkedIn(url)) =>
    /\ pc \in {"init", "rejected", "killed"}
    /\ nav_calls = 0
    /\ file = NoFile
    /\ StoredPages = {}
    /\ all_connections = <<>>
    /\ existing_names = {}
    /\ readings = <<>>

\* the URL with the scheme http:// was rejected
InvalidStartUrlRejectedWitness ==
  /\ prog \in {"other", "own"}
  /\ url[1] = "http://"
  /\ pc = "rejected"
  /\ nav_calls = 0
  /\ file = NoFile

\* the keys (names) of the accumulated records
NamesOf(connections) ==
  { connections[j].name : j \in 1..Len(connections) }

\* C17: in the scroll crawl no key occurs twice in all_connections, every
\* accumulated key is in existing_names, and while the loop runs, after every
\* call of scrape_visible_connections, existing_names is exactly the set of
\* the accumulated keys (a call that raises ends the loop and leaves the
\* names it had read so far in existing_names).
DedupStoreInvariant ==
  prog = "own" =>
    /\ \A i, j \in 1..Len(all_connections) :
         i # j => all_connections[i].name # all_connections[j].name
    /\ NamesOf(all_connections) \subseteq existing_names
    /\ InScrollLoop => existing_names = NamesOf(all_connections)

\* both names are accumulated once and the page was scraped again afterwards
DedupStoreInvariantWitness ==
  /\ prog = "own"
  /\ pc = "scrape"
  /\ exc = "none"
  /\ Len(readings) >= 3
  /\ Len(all_connections) = 2
  /\ existing_names = {"Ann", "Bob"}
  /\ file = Written(all_connections)

\* the keys the cards of a listing show: the names of the cards that have
\* both elements
KeysShown(connections) ==
  { Strip(connections[j].name) :
      j \in { i \in 1..Len(connections) :
                /\ connections[i].name # NoElem
                /\ connections[i].occupation # NoElem } }

\* C18 as stated: once the listing is exhausted and the checkpoint holds the
\* records of every key in the DedupStore, no save is performed: a step that
\* adds no record leaves the checkpoint file as it is.
IdempotentResumptionAsStated ==
  [][(/\ prog = "own"
      /\ exc = "none"
      /\ all_connections # <<>>
      /\ existing_names = NamesOf(all_connections)
      /\ file = Written(all_connections)
      /\ UNCHANGED <<existing_names, all_connections>>)
       => file' = file]_vars

\* a call of scrape_visible_connections on a listing all of whose keys are in
\* existing_names returns no record and leaves existing_names as it was
ExtractionIdempotent ==
  (prog = "own" /\ pc = "scrape") =>
    \A connections \in CardLists :
      KeysShown(connections) \subseteq existing_names =>
        ScrapeVisibleConnections(connections, existing_names)
          = [new_connections |-> <<>>, existing |-> existing_names]

\* when the loop has ended without an exception and the routine is over, the
\* save of the finally block has written the accumulated records once more
ExitSaveRewrites ==
  (prog = "own" /\ CrawlExited /\ exc = "none" /\ all_connections # <<>>) =>
    file = Written(all_connections)

\* C18 amended: an extraction on a listing all of whose keys are in the
\* DedupStore yields no record and leaves the DedupStore unchanged; the loop
\* body that finds no new record performs no save and leaves the checkpoint
\* unchanged; the finally block, when the routine ends with records
\* accumulated, saves once more and rewrites the file with the same records.
IdempotentExtraction ==
  /\ [](ExtractionIdempotent /\ ExitSaveRewrites)
  /\ [][(/\ prog = "own"
         /\ pc = "scrape"
         /\ pc' \in {"scroll", "save_open"}
         /\ existing_names' = existing_names)
          => /\ pc' = "scroll"
             /\ UNCHANGED <<all_connections, file>>]_vars

\* the loop ended at the bottom after scrapes that found nothing new, and the
\* file holds the same 2 records after the save of the finally block
IdempotentExtractionWitness ==
  /\ prog = "own"
  /\ pc = "done"
  /\ exc = "none"
  /\ clicks = 0
  /\ Len(readings) = 5
  /\ existing_names = {"Ann", "Bob"}
  /\ Len(all_connections) = 2
  /\ file = Written(all_connections)

----------------------------------------------------------------------------
(* Properties of the embedding pipeline *)

\* the run of process_profiles_batch has returned
Returned == prog = "embed" /\ pc = "done" /\ exc = "none"

CeilDiv(n, b) == (n + b - 1) \div b

\* the records of the k-th of the batches of size b cut from the records
Slice(k, b) ==
  LET first == (k - 1) * b
      n == IF k * b <= Len(profiles) THEN b ELSE Len(profiles) - first
  IN [j \in 1..n |-> MakeVector(profiles[first + j])]

BatchSizes == [k \in 1..Len(upserts) |-> Len(upserts[k].vectors)]

\* C9: when every record embeds, the run issues ceil(N/B) upsert calls, in
\* record order: floor(N/B) calls of B vectors, then one of N mod B vectors
\* when that is not 0, and none that is empty; 250 records with B = 100 give
\* calls of 100, 100 and 50 vectors.
BatchArithmetic ==
  (Returned /\ embed_fails = {}) =>
    LET N == Len(profiles)
        B == batch_size
    IN /\ Len(upserts) = CeilDiv(N, B)
       /\ \A k \in 1..Len(upserts) :
            /\ upserts[k].vectors = Slice(k, B)
            /\ BatchSizes[k] = IF k <= N \div B THEN B ELSE N % B
            /\ BatchSizes[k] > 0
       /\ (N = 250 /\ B = 100) => BatchSizes = <<100, 100, 50>>

BatchArithmeticWitness ==
  /\ Returned
  /\ Len(profiles) = 250
  /\ batch_size = 100
  /\ BatchSizes = <<100, 100, 50>>

RECURSIVE VectorsIn(_, _)
\* the vectors in the first n upsert calls whose outcome is ok
VectorsIn(n, ok) ==
  IF n = 0 THEN 0
  ELSE VectorsIn(n - 1, ok)
         + (IF upserts[n].ok = ok THEN Len(upserts[n].vectors) ELSE 0)

Embedded == Len(profiles) - Cardinality(embed_fails)

\* C10: the count returned is the number of records that embedded minus the
\* number of vectors in the batches whose upsert failed, which is the number
\* of vectors in the batches whose upsert succeeded, also when the final
\* partial batch fails.
SuccessCount ==
  Returned =>
    /\ successful_uploads = Embedded - VectorsIn(Len(upserts), FALSE)
    /\ successful_uploads = VectorsIn(Len(upserts), TRUE)

\* the 2nd of 3 batches failed: the count is batch 1 plus batch 3
SuccessCountWitness ==
  /\ Returned
  /\ Len(upserts) = 3
  /\ upserts[1].ok /\ ~upserts[2].ok /\ upserts[3].ok
  /\ BatchSizes[3] < BatchSizes[1]
  /\ successful_uploads = BatchSizes[1] + BatchSizes[3]

\* the positions <<call, place>> at which the vector of record i was passed
\* to upsert
CallsWith(i) ==
  { c \in UNION { {<<k, j>> : j \in 1..Len(upserts[k].vectors)} :
                  k \in 1..Len(upserts) } :
      upserts[c[1]].vectors[c[2]].metadata.name = i }

\* the records whose vectors are in a sequence of vectors
RecordsOf(vectors) == { vectors[j].metadata.name : j \in 1..Len(vectors) }

\* C11: a failed upsert is neither retried nor requeued: the vectors of an
\* upsert call, failed or not, are in no later call and not in the batch
\* being filled, the loop goes on after a failed call, and in a run that
\* returns every record that embedded was passed to upsert in exactly one call.
NoRetryNoRequeue ==
  prog = "embed" =>
    /\ \A k \in 1..Len(upserts) :
         /\ \A l \in (k + 1)..Len(upserts) :
              RecordsOf(upserts[k].vectors)
                \cap RecordsOf(upserts[l].vectors) = {}
         /\ pc = "loop" =>
              RecordsOf(upserts[k].vectors) \cap RecordsOf(vectors_batch) = {}
    /\ pc = "aborted" => exc = "KeyError"
    /\ Returned =>
         \A i \in 1..Len(profiles) :
           i \notin embed_fails => Cardinality(CallsWith(i)) = 1

\* the 1st and the 3rd of 3 calls failed, the 2nd call was made all the same
\* and the run returned
NoRetryNoRequeueWitness ==
  /\ Returned
  /\ Len(upserts) = 3
  /\ ~upserts[1].ok /\ upserts[2].ok /\ ~upserts[3].ok
  /\ \A i \in 1..Len(profiles) :
       i \notin embed_fails => Cardinality(CallsWith(i)) = 1

\* C12: a record whose embedding call fails is skipped alone: its vector is in
\* no batch and in no upsert call and it is not counted, and the loop goes on,
\* so that every other record taken so far is counted and is in the batch
\* being filled or in an upsert call.
EmbeddingFailureIsolation ==
  (prog = "embed" /\ pc \in {"loop", "done"} /\ exc = "none") =>
    /\ \A i \in embed_fails :
         /\ i \notin RecordsOf(vectors_batch)
         /\ CallsWith(i) = {}
    /\ \A i \in (1..idx) \ embed_fails :
         \/ pc = "loop" /\ i \in RecordsOf(vectors_batch)
         \/ CallsWith(i) # {}
    /\ pc = "loop" =>
         successful_uploads =
           Cardinality((1..idx) \ embed_fails)
             - VectorsIn(Len(upserts), FALSE)
    /\ pc = "done" => idx = Len(profiles)

\* the 1st record failed to embed and every later record was upserted
EmbeddingFailureIsolationWitness ==
  /\ Returned
  /\ Len(profiles) >= 3
  /\ embed_fails = {1}
  /\ CallsWith(1) = {}
  /\ \A i \in 2..Len(profiles) : CallsWith(i) # {}
  /\ \A k \in 1..Len(upserts) : upserts[k].ok
  /\ successful_uploads = Len(profiles) - 1

\* the records whose vectors were passed to upsert
Upserted == UNION { RecordsOf(upserts[k].vectors) : k \in 1..Len(upserts) }

\* C15: when the run of the pipeline ends, by returning or by an error that
\* aborts it, every vector it built was passed to upsert: the batch being
\* filled is flushed before the run ends.
PipelineFlushOnAbort ==
  (prog = "embed" /\ pc \in {"done", "aborted"}) =>
    RecordsOf(vectors_batch) \subseteq Upserted

\* every vector the run has built, in the batch or in an upsert call
Vectors ==
  { vectors_batch[j] : j \in 1..Len(vectors_batch) }
    \cup UNION { { upserts[k].vectors[j] : j \in 1..Len(upserts[k].vectors) } :
                 k \in 1..Len(upserts) }

\* the handle of a profile URL: its last segment, a trailing "/" set aside
Handle(u) == IF u[Len(u)] = "" THEN u[Len(u) - 1] ELSE u[Len(u)]

\* C20: the id of a vector is not empty and is the handle of its record's
\* URL, with and without a trailing slash, so that two records with different
\* handles never get the same id.
VectorIdIsHandle ==
  prog = "embed" =>
    /\ \A v \in Vectors : v.id # "" /\ v.id = Handle(v.metadata.url)
    /\ \A v, w \in Vectors :
         Handle(v.metadata.url) # Handle(w.metadata.url) => v.id # w.id

\* C23: whatever the batch size and whichever embedding and upsert calls
\* fail, no upsert call carries more than batch_size vectors or none, and at
\* the start of every loop iteration the batch being filled holds fewer than
\* batch_size vectors, in the order in which their records were processed.
BatchCapacity ==
  prog = "embed" =>
    /\ \A k \in 1..Len(upserts) :
         /\ Len(upserts[k].vectors) >= 1
         /\ Len(upserts[k].vectors) <= batch_size
    /\ pc = "loop" =>
         /\ Len(vectors_batch) < batch_size
         /\ \A i, j \in 1..Len(vectors_batch) :
              i < j => /\ vectors_batch[i].metadata.name
                            < vectors_batch[j].metadata.name
                       /\ vectors_batch[j].metadata.name <= idx

\* after a failed full batch and a skipped record the batch is being filled
\* again
BatchCapacityWitness ==
  /\ prog = "embed"
  /\ pc = "loop"
  /\ batch_size = 3
  /\ embed_fails # {}
  /\ Len(upserts) = 1
  /\ ~upserts[1].ok
  /\ Len(upserts[1].vectors) = 3
  /\ Len(vectors_batch) = 1

----------------------------------------------------------------------------
(* Properties of the screenshot workers *)

\* C13: under every interleaving no two workers are inside the
\* read/append/write block guarded by json_lock at the same time; it is on
\* this exclusion that "no update to the output file is lost" rests.
WriteMutualExclusion == prog = "shot" => Cardinality(lock_held) <= 1

\* the tasks inside the block guarded by json_lock
InCriticalSection == { t \in Tasks : tpc[t] \in {"read", "write", "dump"} }

\* C25: a worker holds the lock exactly while it is inside the guarded
\* block, so it releases it on every way out, failures of the read and of
\* the write included; and a failure inside the block leaves the output file
\* with its previous contents: while no worker is writing, the file is
\* absent or holds a complete list that later workers can append to.
LockRelease ==
  prog = "shot" =>
    /\ lock_held = InCriticalSection
    /\ (\A t \in Tasks : tpc[t] # "dump") =>
         out_file.kind \in {"absent", "complete"}

====
